---------------------------- MODULE Spec2Model ----------------------------
(***************************************************************************)
(* A model of fetch_papers.py: the three source adapters, the field        *)
(* normalizers, the orchestration loop of main and deduplicate_records.    *)
(*                                                                         *)
(* Strings are sequences of characters.  A few multi-character tokens      *)
(* ("title:", "|date:", "https://doi.org/") stand for the literal text of  *)
(* the same spelling; no token is a concatenation of other tokens, so two  *)
(* strings are equal exactly when their token sequences are equal.         *)
(***************************************************************************)
EXTENDS Integers, Sequences, FiniteSets, TLC

VARIABLES
    pc,              \* position of the running function
    sources,         \* main: normalize_list_argument(args.sources)
    keywords,        \* main: normalize_list_argument(args.keywords)
    si,              \* main: index of the source the outer loop is at
    ki,              \* main: index of the keyword the inner loop is at
    all_records,     \* main: the combined sequence
    unique_records,  \* main: deduplicate_records(all_records)
    csv_rows,        \* main: the rows handed to write_csv
    calls,           \* history: every fetcher call made, with its outcome
    input,           \* the argument of the function a specification applies
    output,          \* its result
    rerun            \* deduplicate_records applied to its own output

vars == <<pc, sources, keywords, si, ki, all_records, unique_records,
          csv_rows, calls, input, output, rerun>>

mainVars == <<sources, keywords, si, ki, all_records, unique_records,
              csv_rows, calls>>

(***************************************************************************)
(* Bounds of the model.                                                    *)
(***************************************************************************)
MaxRecords == 3
MaxSources == 2
MaxPosition == 2
MaxOccurrences == 2

(***************************************************************************)
(* Python values.                                                          *)
(***************************************************************************)
\* None where a string is expected; distinct from the empty string <<>>.
None == <<"None">>

\* Python truthiness of an optional string: None and "" are falsy.
Truthy(s) == s /= None /\ s /= <<>>

SeqsUpTo(S, n) == UNION {[1..k -> S] : k \in 0..n}

UpperLetters ==
    <<"A", "B", "C", "D", "E", "F", "G", "H", "I", "J", "K", "L", "M",
      "N", "O", "P", "Q", "R", "S", "T", "U", "V", "W", "X", "Y", "Z">>

LowerLetters ==
    <<"a", "b", "c", "d", "e", "f", "g", "h", "i", "j", "k", "l", "m",
      "n", "o", "p", "q", "r", "s", "t", "u", "v", "w", "x", "y", "z">>

\* str.lower on one character (or token).
LowerChar(c) ==
    IF \E i \in 1..Len(UpperLetters) : UpperLetters[i] = c
    THEN LowerLetters[CHOOSE i \in 1..Len(UpperLetters) : UpperLetters[i] = c]
    ELSE IF c = "HTTPS://DOI.ORG/" THEN "https://doi.org/" ELSE c

\* str.lower
Lower(s) == [i \in 1..Len(s) |-> LowerChar(s[i])]

IsSpace(c) == c \in {" ", "\n", "\t"}

RECURSIVE LStrip(_)
LStrip(s) == IF s /= <<>> /\ IsSpace(Head(s)) THEN LStrip(Tail(s)) ELSE s

RECURSIVE RStrip(_)
RStrip(s) ==
    IF s /= <<>> /\ IsSpace(s[Len(s)])
    THEN RStrip(SubSeq(s, 1, Len(s) - 1))
    ELSE s

\* str.strip
Strip(s) == LStrip(RStrip(s))

(***************************************************************************)
(* Python values that may be of any type, and raised exceptions.  A value  *)
(* is a record tagged with its type; an expression that raises evaluates   *)
(* to Exc(name), and every operation on an Exc yields that Exc, as the     *)
(* exception leaves the enclosing expression.                              *)
(***************************************************************************)
JNull == [t |-> "null"]
JStr(s) == [t |-> "str", v |-> s]
JInt(n) == [t |-> "int", v |-> n]
JList(xs) == [t |-> "list", v |-> xs]
JObj(f) == [t |-> "obj", v |-> f]
Exc(name) == [t |-> "exc", exc |-> name]
EmptyObj == JObj(<<>>)
EmptyList == JList(<<>>)
EmptyStr == JStr(<<>>)

IsExc(v) == v.t = "exc"

\* bool(v)
PyTruthy(v) ==
    CASE v.t = "null" -> FALSE
      [] v.t = "str" -> v.v /= <<>>
      [] v.t = "int" -> v.v /= 0
      [] v.t = "list" -> v.v /= <<>>
      [] v.t = "obj" -> DOMAIN v.v /= {}

\* d.get(key, default); AttributeError when d is not a dict.
Get(d, key, default) ==
    IF IsExc(d) THEN d
    ELSE IF d.t = "obj"
         THEN IF key \in DOMAIN d.v THEN d.v[key] ELSE default
         ELSE Exc("AttributeError")

\* v or default
Or(v, default) == IF IsExc(v) \/ PyTruthy(v) THEN v ELSE default

\* The first exception among the values of vs, in evaluation order, or JNull.
RECURSIVE FirstExc(_)
FirstExc(vs) ==
    IF vs = <<>> THEN JNull
    ELSE IF IsExc(Head(vs)) THEN Head(vs) ELSE FirstExc(Tail(vs))

(***************************************************************************)
(* Decimal digits: int(), str.isdigit() and the format specs 02d and 04d.  *)
(***************************************************************************)
Digits == <<"0", "1", "2", "3", "4", "5", "6", "7", "8", "9">>

IsDigitChar(c) == \E d \in 1..Len(Digits) : Digits[d] = c

DigitValue(c) == (CHOOSE d \in 1..Len(Digits) : Digits[d] = c) - 1

\* str.isdigit
IsDigit(s) == s /= <<>> /\ \A i \in 1..Len(s) : IsDigitChar(s[i])

RECURSIVE DigitsValue(_)
DigitsValue(s) ==
    IF s = <<>> THEN 0
    ELSE 10 * DigitsValue(SubSeq(s, 1, Len(s) - 1)) + DigitValue(s[Len(s)])

\* int(s): surrounding whitespace is ignored; ValueError unless digits remain.
PyInt(s) ==
    IF IsDigit(Strip(s)) THEN JInt(DigitsValue(Strip(s)))
    ELSE Exc("ValueError")

RECURSIVE ToDigits(_)
ToDigits(n) ==
    IF n < 10 THEN <<Digits[n + 1]>>
    ELSE ToDigits(n \div 10) \o <<Digits[(n % 10) + 1]>>

RECURSIVE PadLeft(_, _)
PadLeft(s, width) ==
    IF Len(s) >= width THEN s ELSE PadLeft(<<"0">> \o s, width)

\* f"{n:0{width}d}" for an int n >= 0
ZeroPad(n, width) == PadLeft(ToDigits(n), width)

\* s[:n]
Prefix(s, n) == SubSeq(s, 1, IF Len(s) < n THEN Len(s) ELSE n)

(***************************************************************************)
(* extract_pubmed_date and extract_crossref_date.                          *)
(***************************************************************************)
MonthAbbreviations ==
    << <<"j", "a", "n">>, <<"f", "e", "b">>, <<"m", "a", "r">>,
       <<"a", "p", "r">>, <<"m", "a", "y">>, <<"j", "u", "n">>,
       <<"j", "u", "l">>, <<"a", "u", "g">>, <<"s", "e", "p">>,
       <<"o", "c", "t">>, <<"n", "o", "v">>, <<"d", "e", "c">> >>

\* dt.datetime.strptime(text, "%b").month: the abbreviated month names are
\* matched without regard to case; None stands for the ValueError.
StrptimeMonth(text) ==
    IF \E i \in 1..Len(MonthAbbreviations) : MonthAbbreviations[i] = Lower(text)
    THEN ZeroPad(CHOOSE i \in 1..Len(MonthAbbreviations) :
                    MonthAbbreviations[i] = Lower(text), 2)
    ELSE None

\* A mutant of ResolveMonth: the ValueError of strptime is not handled as
\* "month = None"; the month text is kept.
ResolveMonthKeepsText(month) ==
    IF Truthy(month) /\ ~IsDigit(month) /\ StrptimeMonth(Prefix(month, 3)) /= None
    THEN StrptimeMonth(Prefix(month, 3))
    ELSE month

\* "if month and not month.isdigit(): try ... except ValueError: month = None"
ResolveMonth(month) ==
    IF Truthy(month) /\ ~IsDigit(month)
    THEN StrptimeMonth(Prefix(month, 3))
    ELSE month

\* A PubDate or ArticleDate element with the text of its Year, Month and Day
\* children (None for a missing child), and the missing element.
DateElement(year, month, day) ==
    [present |-> TRUE, Year |-> year, Month |-> month, Day |-> day]
NoElement == [present |-> FALSE, Year |-> None, Month |-> None, Day |-> None]

extract_pubmed_date(article) ==
    LET pub_date == IF article.PubDate.present THEN article.PubDate
                    ELSE article.ArticleDate
    IN  IF ~pub_date.present THEN EmptyStr
        ELSE
        LET year == pub_date.Year
            month == ResolveMonth(pub_date.Month)
            day == pub_date.Day
        IN  IF Truthy(year) /\ Truthy(month) /\ Truthy(day)
            THEN IF IsExc(PyInt(month)) THEN PyInt(month)
                 ELSE IF IsExc(PyInt(day)) THEN PyInt(day)
                 ELSE JStr(year \o <<"-">> \o ZeroPad(PyInt(month).v, 2)
                           \o <<"-">> \o ZeroPad(PyInt(day).v, 2))
            ELSE IF Truthy(year) /\ Truthy(month)
            THEN IF IsExc(PyInt(month)) THEN PyInt(month)
                 ELSE JStr(year \o <<"-">> \o ZeroPad(PyInt(month).v, 2))
            ELSE IF Truthy(year) THEN JStr(year)
            ELSE EmptyStr

\* v[i], i counted from 0
Index(v, i) ==
    IF IsExc(v) THEN v
    ELSE IF v.t = "list"
         THEN IF i < Len(v.v) THEN v.v[i + 1] ELSE Exc("IndexError")
         ELSE IF v.t = "str"
         THEN IF i < Len(v.v) THEN JStr(<<v.v[i + 1]>>) ELSE Exc("IndexError")
         ELSE IF v.t = "obj"
         THEN Exc("KeyError")
         ELSE Exc("TypeError")

\* len(v) of a list or a string (0 otherwise: the callers index v first, and
\* that raises)
PyLen(v) == IF v.t \in {"list", "str"} THEN Len(v.v) ELSE 0

\* f"{v:0{width}d}"
FormatD(v, width) ==
    IF v.t = "int" THEN JStr(ZeroPad(v.v, width))
    ELSE IF v.t = "str" THEN Exc("ValueError")
    ELSE Exc("TypeError")

\* The dash-joined text of the formatted parts, or the first exception.
RECURSIVE DashJoin(_)
DashJoin(texts) ==
    IF IsExc(FirstExc(texts)) THEN FirstExc(texts)
    ELSE IF Len(texts) = 1 THEN texts[1]
    ELSE JStr(texts[1].v \o <<"-">> \o DashJoin(Tail(texts)).v)

CrossrefDateKeys == <<"published-print", "published-online", "issued", "created">>

RECURSIVE CrossrefDateLoop(_, _)
CrossrefDateLoop(item, keys) ==
    IF keys = <<>> THEN EmptyStr
    ELSE
    LET date_info == Get(item, Head(keys), JNull)
        date_parts == Get(date_info, "date-parts", JNull)
        parts == Index(date_parts, 0)
        year == Index(parts, 0)
        month == IF PyLen(parts) > 1 THEN Index(parts, 1) ELSE JNull
        day == IF PyLen(parts) > 2 THEN Index(parts, 2) ELSE JNull
        continue == CrossrefDateLoop(item, Tail(keys))
    IN  IF IsExc(date_info) THEN date_info
        ELSE IF ~PyTruthy(date_info) THEN continue
        ELSE IF IsExc(date_parts) THEN date_parts
        ELSE IF ~PyTruthy(date_parts) THEN continue
        ELSE IF IsExc(parts) THEN parts
        ELSE IF ~PyTruthy(parts) THEN continue
        ELSE IF IsExc(year) THEN year
        ELSE IF PyTruthy(year) /\ PyTruthy(month) /\ PyTruthy(day)
        THEN DashJoin(<<FormatD(year, 4), FormatD(month, 2), FormatD(day, 2)>>)
        ELSE IF PyTruthy(year) /\ PyTruthy(month)
        THEN DashJoin(<<FormatD(year, 4), FormatD(month, 2)>>)
        ELSE IF PyTruthy(year)
        THEN FormatD(year, 4)
        ELSE continue

extract_crossref_date(item) == CrossrefDateLoop(item, CrossrefDateKeys)


(***************************************************************************)
(* decode_openalex_abstract.  The index is None (JNull) or a dict, held as *)
(* the sequence of its (word, positions) items in iteration order; the     *)
(* words of a dict are distinct.                                           *)
(***************************************************************************)
IndexDict(items) == [t |-> "index", v |-> items]

\* sep.join(words)
RECURSIVE Join(_, _)
Join(sep, words) ==
    IF words = <<>> THEN <<>>
    ELSE IF Len(words) = 1 THEN words[1]
    ELSE words[1] \o sep \o Join(sep, Tail(words))

\* sorted(S) for a set of integers
RECURSIVE Sorted(_)
Sorted(S) ==
    IF S = {} THEN <<>>
    ELSE LET least == CHOOSE x \in S : \A y \in S : x <= y
         IN  <<least>> \o Sorted(S \ {least})

\* A mutant of PositionsPut: the first word at a position is kept
\* (positions.setdefault(idx, word)).
PositionsPutIfAbsent(positions, idx, word) ==
    IF idx \in DOMAIN positions THEN positions
    ELSE [i \in DOMAIN positions \cup {idx} |->
            IF i = idx THEN word ELSE positions[i]]

\* positions[idx] = word
PositionsPut(positions, idx, word) ==
    [i \in DOMAIN positions \cup {idx} |->
        IF i = idx THEN word ELSE positions[i]]

\* for idx in idxs: positions[idx] = word
RECURSIVE PositionsOfWord(_, _, _)
PositionsOfWord(positions, word, idxs) ==
    IF idxs = <<>> THEN positions
    ELSE PositionsOfWord(PositionsPut(positions, Head(idxs), word), word,
                         Tail(idxs))

\* for word, idxs in index.items(): ...
RECURSIVE PositionsOfIndex(_, _)
PositionsOfIndex(positions, items) ==
    IF items = <<>> THEN positions
    ELSE PositionsOfIndex(
             PositionsOfWord(positions, Head(items).word, Head(items).idxs),
             Tail(items))

decode_openalex_abstract(index) ==
    IF index.t = "null" \/ index.v = <<>>
    THEN EmptyStr
    ELSE LET positions == PositionsOfIndex(<<>>, index.v)
             order == Sorted(DOMAIN positions)
             abstract_words == [k \in 1..Len(order) |-> positions[order[k]]]
         IN  JStr(Join(<<" ">>, abstract_words))


(***************************************************************************)
(* PaperRecord and deduplicate_records.                                    *)
(***************************************************************************)
PaperRecord(source, keyword, title, authors, doi, publication_date, journal, abstract) ==
    [source |-> source, keyword |-> keyword, title |-> title,
     authors |-> authors, doi |-> doi, publication_date |-> publication_date,
     journal |-> journal, abstract |-> abstract]

\* A mutant of RecordKey: the DOI is used as the key as it is, not lowercased.
RecordKeyCaseSensitive(record) ==
    IF record.doi /= <<>>
    THEN record.doi
    ELSE <<"title:">> \o Strip(Lower(record.title)) \o <<"|date:">>
         \o record.publication_date

\* The key deduplicate_records computes for one record.
RecordKey(record) ==
    LET key == IF record.doi /= <<>> THEN Lower(record.doi) ELSE <<>>
    IN  IF key = <<>>
        THEN LET normalized_title == Strip(Lower(record.title))
             IN  <<"title:">> \o normalized_title \o <<"|date:">>
                 \o record.publication_date
        ELSE key

SeenKeys(seen) == {seen[i].key : i \in 1..Len(seen)}

\* A mutant of SeenInsert: last write wins (the key keeps its place in the
\* dict, the value is overwritten).
SeenInsertOverwrite(seen, key, record) ==
    IF key \notin SeenKeys(seen)
    THEN Append(seen, [key |-> key, value |-> record])
    ELSE [i \in 1..Len(seen) |->
            IF seen[i].key = key THEN [key |-> key, value |-> record]
            ELSE seen[i]]

\* "if key not in seen: seen[key] = record" on an insertion-ordered dict,
\* held as the sequence of its (key, value) items.
SeenInsert(seen, key, record) ==
    IF key \notin SeenKeys(seen)
    THEN Append(seen, [key |-> key, value |-> record])
    ELSE seen

RECURSIVE DedupLoop(_, _)
DedupLoop(records, seen) ==
    IF records = <<>>
    THEN seen
    ELSE LET record == Head(records)
         IN  DedupLoop(Tail(records),
                       SeenInsert(seen, RecordKey(record), record))

deduplicate_records(records) ==
    LET seen == DedupLoop(records, <<>>)
    IN  [i \in 1..Len(seen) |-> seen[i].value]

(***************************************************************************)
(* String methods and iteration on values of any type.                     *)
(***************************************************************************)
\* v.strip(); AttributeError unless v is a str.
StrStrip(v) ==
    IF IsExc(v) THEN v
    ELSE IF v.t = "str" THEN JStr(Strip(v.v)) ELSE Exc("AttributeError")

\* v.lower()
StrLower(v) ==
    IF IsExc(v) THEN v
    ELSE IF v.t = "str" THEN JStr(Lower(v.v)) ELSE Exc("AttributeError")

\* s with every occurrence of the token old removed.
RECURSIVE RemoveAll(_, _)
RemoveAll(s, old) ==
    IF s = <<>> THEN <<>>
    ELSE (IF Head(s) = old THEN <<>> ELSE <<Head(s)>>) \o RemoveAll(Tail(s), old)

\* v.replace(old, "") for a token old
StrRemove(v, old) ==
    IF IsExc(v) THEN v
    ELSE IF v.t = "str" THEN JStr(RemoveAll(v.v, old))
    ELSE Exc("AttributeError")

\* The elements of a set of keys as a sequence (a dict iterates its keys).
RECURSIVE KeySeq(_)
KeySeq(S) ==
    IF S = {} THEN <<>>
    ELSE LET k == CHOOSE x \in S : TRUE IN <<JStr(<<k>>)>> \o KeySeq(S \ {k})

\* The sequence "for x in v" runs over; TypeError when v is not iterable.
Iterate(v) ==
    IF IsExc(v) THEN v
    ELSE IF v.t = "list" THEN v
    ELSE IF v.t = "str" THEN JList([i \in 1..Len(v.v) |-> JStr(<<v.v[i]>>)])
    ELSE IF v.t = "obj" THEN JList(KeySeq(DOMAIN v.v))
    ELSE Exc("TypeError")

\* sep.join(v): v must be iterable and hold only str.
StrJoin(sep, v) ==
    IF IsExc(Iterate(v)) THEN Iterate(v)
    ELSE IF \E i \in 1..Len(Iterate(v).v) : Iterate(v).v[i].t /= "str"
    THEN Exc("TypeError")
    ELSE JStr(Join(sep, [i \in 1..Len(Iterate(v).v) |-> Iterate(v).v[i].v]))

\* The truthy values of vs, in order.
RECURSIVE FilterTruthy(_)
FilterTruthy(vs) ==
    IF vs = <<>> THEN <<>>
    ELSE (IF PyTruthy(Head(vs)) THEN <<Head(vs)>> ELSE <<>>)
         \o FilterTruthy(Tail(vs))

(***************************************************************************)
(* clean_html                                                              *)
(***************************************************************************)
\* The index of the first ">" of s at or after index i, 0 if there is none.
RECURSIVE FindClose(_, _)
FindClose(s, i) ==
    IF i > Len(s) THEN 0
    ELSE IF s[i] = ">" THEN i ELSE FindClose(s, i + 1)

\* re.sub(r"<[^>]+>", "", s)
RECURSIVE RemoveTags(_)
RemoveTags(s) ==
    IF s = <<>> THEN <<>>
    ELSE IF Head(s) = "<" /\ FindClose(s, 2) > 2
    THEN RemoveTags(SubSeq(s, FindClose(s, 2) + 1, Len(s)))
    ELSE <<Head(s)>> \o RemoveTags(Tail(s))

\* text.replace("\n", " ")
NewlinesToSpaces(s) == [i \in 1..Len(s) |-> IF s[i] = "\n" THEN " " ELSE s[i]]

clean_html(value) ==
    IF IsExc(value) THEN value
    ELSE IF ~PyTruthy(value) THEN EmptyStr
    ELSE IF value.t /= "str" THEN Exc("TypeError")
    ELSE JStr(Strip(NewlinesToSpaces(RemoveTags(value.v))))

(***************************************************************************)
(* The HTTP exchange of an adapter.  A response is what requests.get,      *)
(* raise_for_status and response.json() make of it: a transport failure    *)
(* (RequestException), a body that is not JSON (response.json() raises     *)
(* requests' JSONDecodeError, a RequestException since requests 2.27), or  *)
(* the decoded body.                                                       *)
(***************************************************************************)
\* The responses to the requests of one adapter call are held as a sequence,
\* one response per request the adapter may make.
TransportError == [status |-> "error", body |-> JNull]
MalformedBody == [status |-> "malformed", body |-> JNull]
Response(body) == [status |-> "ok", body |-> body]

\* Whether the try block around the request ends in "except
\* requests.RequestException".
RequestFails(response) == response.status \in {"error", "malformed"}

\* The record built from the computed fields, or the first exception raised
\* while computing them.
RecordOrExc(source, keyword, title, authors, doi, date, journal, abstract) ==
    IF IsExc(FirstExc(<<title, authors, doi, date, journal, abstract>>))
    THEN FirstExc(<<title, authors, doi, date, journal, abstract>>)
    ELSE JList(<<PaperRecord(source, keyword, title.v, authors.v, doi.v,
                             date.v, journal.v, abstract.v)>>)

\* records.append(record): the records so far and the records of the next
\* item, or the exception either evaluation raised.
AppendRecords(records, more) ==
    IF IsExc(records) THEN records
    ELSE IF IsExc(more) THEN more
    ELSE JList(records.v \o more.v)

(***************************************************************************)
(* fetch_openalex                                                          *)
(***************************************************************************)
\* The display names of the authorships of an item, "; "-joined.
RECURSIVE OpenalexAuthorNames(_)
OpenalexAuthorNames(authorships) ==
    IF authorships = <<>> THEN JList(<<>>)
    ELSE LET author_obj == Or(Get(Head(authorships), "author", JNull), EmptyObj)
             name == Get(author_obj, "display_name", JNull)
         IN  IF IsExc(name) THEN name
             ELSE AppendRecords(
                      JList(IF PyTruthy(name) THEN <<name>> ELSE <<>>),
                      OpenalexAuthorNames(Tail(authorships)))

OpenalexAuthors(item) ==
    LET authorships == Iterate(Or(Get(item, "authorships", EmptyList), EmptyList))
    IN  IF IsExc(authorships) THEN authorships
        ELSE StrJoin(<<";", " ">>, OpenalexAuthorNames(authorships.v))

OpenalexRecord(item, keyword) ==
    LET title == StrStrip(Or(Get(item, "title", JNull), EmptyStr))
        authors_str == OpenalexAuthors(item)
        doi == StrStrip(StrRemove(
                   Or(Get(Get(item, "ids", EmptyObj), "doi", JNull), EmptyStr),
                   "https://doi.org/"))
        publication_date == Or(Get(item, "publication_date", JNull), EmptyStr)
        journal == StrStrip(
                       Get(Get(Get(item, "primary_location", EmptyObj),
                               "source", EmptyObj),
                           "display_name", EmptyStr))
        abstract == decode_openalex_abstract(
                        Get(item, "abstract_inverted_index", JNull))
    IN  RecordOrExc("OpenAlex", keyword, title, authors_str, doi,
                    publication_date, journal, abstract)

RECURSIVE OpenalexLoop(_, _)
OpenalexLoop(results, keyword) ==
    IF results = <<>> THEN JList(<<>>)
    ELSE AppendRecords(OpenalexRecord(Head(results), keyword),
                       OpenalexLoop(Tail(results), keyword))

fetch_openalex(keyword, response) ==
    IF RequestFails(response[1]) THEN JList(<<>>)
    ELSE LET results == Iterate(Get(response[1].body, "results", EmptyList))
         IN  IF IsExc(results) THEN results
             ELSE OpenalexLoop(results.v, keyword)

(***************************************************************************)
(* fetch_crossref                                                          *)
(***************************************************************************)
\* The name of one author entry: given and family joined by a space, else
\* the entry's "name"; JNull for an entry without any name.
CrossrefAuthorName(author) ==
    LET given == Or(Get(author, "given", JNull), EmptyStr)
        family == Or(Get(author, "family", JNull), EmptyStr)
        joined == StrStrip(StrJoin(<<" ">>, JList(FilterTruthy(<<given, family>>))))
    IN  IF IsExc(given) THEN given
        ELSE IF IsExc(family) THEN family
        ELSE IF IsExc(joined) THEN joined
        ELSE IF PyTruthy(joined) THEN joined
        ELSE Get(author, "name", EmptyStr)

RECURSIVE CrossrefAuthorNames(_)
CrossrefAuthorNames(entries) ==
    IF entries = <<>> THEN JList(<<>>)
    ELSE LET name == CrossrefAuthorName(Head(entries))
         IN  IF IsExc(name) THEN name
             ELSE AppendRecords(
                      JList(IF PyTruthy(name) THEN <<name>> ELSE <<>>),
                      CrossrefAuthorNames(Tail(entries)))

CrossrefAuthors(item) ==
    LET entries == Iterate(Or(Get(item, "author", EmptyList), EmptyList))
    IN  IF IsExc(entries) THEN entries
        ELSE StrJoin(<<";", " ">>, CrossrefAuthorNames(entries.v))

CrossrefRecord(item, keyword) ==
    LET title == StrStrip(StrJoin(<<" ">>, Get(item, "title", EmptyList)))
        authors_str == CrossrefAuthors(item)
        doi == StrStrip(StrLower(Or(Get(item, "DOI", JNull), EmptyStr)))
        publication_date == extract_crossref_date(item)
        journal == StrStrip(StrJoin(<<" ">>,
                                    Get(item, "container-title", EmptyList)))
        abstract == clean_html(Get(item, "abstract", EmptyStr))
    IN  RecordOrExc("Crossref", keyword, title, authors_str, doi,
                    publication_date, journal, abstract)

RECURSIVE CrossrefLoop(_, _)
CrossrefLoop(items, keyword) ==
    IF items = <<>> THEN JList(<<>>)
    ELSE AppendRecords(CrossrefRecord(Head(items), keyword),
                       CrossrefLoop(Tail(items), keyword))

fetch_crossref(keyword, response) ==
    IF RequestFails(response[1]) THEN JList(<<>>)
    ELSE LET items == Iterate(Get(Get(response[1].body, "message", EmptyObj),
                                  "items", EmptyList))
         IN  IF IsExc(items) THEN items
             ELSE CrossrefLoop(items.v, keyword)

(***************************************************************************)
(* fetch_pubmed.  An article is held as what the element lookups of the    *)
(* loop body yield: the text of ArticleTitle, the texts of the             *)
(* AbstractText elements, the Author elements with the text of their       *)
(* children, the text of the ArticleId of type doi, the journal title and  *)
(* the two date elements; None for an element that is missing.             *)
(***************************************************************************)
Author(collective_name, last_name, fore_name, initials) ==
    [CollectiveName |-> collective_name, LastName |-> last_name,
     ForeName |-> fore_name, Initials |-> initials]

\* The names one Author element adds to authors: one or none.
PubmedAuthorName(author) ==
    LET collective_name == author.CollectiveName
        last_name == author.LastName
        fore_name == author.ForeName
        initials == author.Initials
    IN  IF Truthy(collective_name) THEN <<Strip(collective_name)>>
        ELSE IF Truthy(fore_name) \/ Truthy(last_name)
        THEN <<Join(<<" ">>, SelectSeq(<<fore_name, last_name>>, Truthy))>>
        ELSE IF Truthy(initials) /\ Truthy(last_name)
        THEN <<initials \o <<" ">> \o last_name>>
        ELSE <<>>

RECURSIVE PubmedAuthorNames(_)
PubmedAuthorNames(authors) ==
    IF authors = <<>> THEN <<>>
    ELSE PubmedAuthorName(Head(authors)) \o PubmedAuthorNames(Tail(authors))

\* The stripped texts of the AbstractText elements that are not empty.
PubmedAbstractTexts(texts) ==
    SelectSeq([i \in 1..Len(texts) |-> Strip(texts[i])], Truthy)

PubmedRecord(article, keyword) ==
    LET title == IF article.ArticleTitle /= None
                 THEN Strip(article.ArticleTitle) ELSE <<>>
        abstract == Join(<<"\n">>, PubmedAbstractTexts(article.AbstractTexts))
        authors_str == Join(<<";", " ">>, PubmedAuthorNames(article.Authors))
        doi == IF Truthy(article.DoiId) THEN Strip(article.DoiId) ELSE <<>>
        journal == IF article.JournalTitle /= None
                   THEN Strip(article.JournalTitle) ELSE <<>>
        publication_date == extract_pubmed_date(article)
    IN  RecordOrExc("PubMed", keyword, JStr(title), JStr(authors_str),
                    JStr(doi), publication_date, JStr(journal),
                    JStr(abstract))

RECURSIVE PubmedLoop(_, _)
PubmedLoop(articles, keyword) ==
    IF articles = <<>> THEN JList(<<>>)
    ELSE AppendRecords(PubmedRecord(Head(articles), keyword),
                       PubmedLoop(Tail(articles), keyword))

\* response is the pair of the esearch response and the efetch response;
\* the status "malformed" of the latter is the ET.ParseError, its body the
\* PubmedArticle elements of the parsed document.
fetch_pubmed(keyword, response) ==
    LET search == response[1]
        fetched == response[2]
        id_list == Get(Get(search.body, "esearchresult", EmptyObj),
                       "idlist", EmptyList)
    IN  IF RequestFails(search) THEN JList(<<>>)
        ELSE IF IsExc(id_list) THEN id_list
        ELSE IF ~PyTruthy(id_list) THEN JList(<<>>)
        ELSE IF IsExc(StrJoin(<<",">>, id_list)) THEN StrJoin(<<",">>, id_list)
        ELSE IF RequestFails(fetched) THEN JList(<<>>)
        ELSE PubmedLoop(fetched.body.v, keyword)

(***************************************************************************)
(* SpecDedup: deduplicate_records applied to a sequence of records, and    *)
(* then to its own output.                                                 *)
(***************************************************************************)
SampleDois == {<<>>, <<"x">>, <<"X">>}
SampleTitles == {<<"a">>, <<" ", "A", " ">>}
SampleDates == {<<>>, <<"1">>}

DedupRecord(doi, title, date) ==
    PaperRecord("PubMed", <<"k">>, title, <<>>, doi, date, <<>>, <<>>)

\* Records with every combination of the sample fields, and two records
\* without DOI in which the text "|date:" occurs in the title or the date.
SampleRecords ==
    {DedupRecord(d, t, p) : d \in SampleDois, t \in SampleTitles,
                            p \in SampleDates}
    \cup {DedupRecord(<<>>, <<"|date:">>, <<>>),
          DedupRecord(<<>>, <<>>, <<"|date:">>)}

MainIdle ==
    /\ sources = <<>>
    /\ keywords = <<>>
    /\ si = 0
    /\ ki = 0
    /\ all_records = <<>>
    /\ unique_records = <<>>
    /\ csv_rows = <<>>
    /\ calls = <<>>

InitDedup ==
    /\ pc = "dedup"
    /\ input \in SeqsUpTo(SampleRecords, MaxRecords)
    /\ output = <<>>
    /\ rerun = <<>>
    /\ MainIdle

Deduplicate ==
    /\ pc = "dedup"
    /\ output' = deduplicate_records(input)
    /\ pc' = "deduped"
    /\ UNCHANGED <<input, rerun, mainVars>>

DeduplicateAgain ==
    /\ pc = "deduped"
    /\ rerun' = deduplicate_records(output)
    /\ pc' = "rerun"
    /\ UNCHANGED <<input, output, mainVars>>

NextDedup == Deduplicate \/ DeduplicateAgain

SpecDedup == InitDedup /\ [][NextDedup]_vars

\* The identity key of a record: the lowercased doi if the doi is non-empty,
\* otherwise the composite of the lowercased, trimmed title and the
\* publication_date, in the rendering "title:<title>|date:<date>".
IdentityKey(r) ==
    IF r.doi /= <<>>
    THEN Lower(r.doi)
    ELSE <<"title:">> \o Strip(Lower(r.title)) \o <<"|date:">>
         \o r.publication_date

\* The records of s, from index i on, that are the first of s with their
\* identity key, in the order of s.
RECURSIVE FirstOccurrences(_, _)
FirstOccurrences(s, i) ==
    IF i > Len(s)
    THEN <<>>
    ELSE (IF \E j \in 1..(i - 1) : IdentityKey(s[j]) = IdentityKey(s[i])
          THEN <<>>
          ELSE <<s[i]>>)
         \o FirstOccurrences(s, i + 1)

\* C1: deduplicating the output of deduplicate_records again changes
\* nothing, the output is no longer than the input, and no two records of
\* the output have the same identity key.
C1_DedupIdempotent ==
    pc = "rerun" =>
        /\ rerun = output
        /\ Len(output) <= Len(input)
        /\ \A i, j \in 1..Len(output) :
              i /= j => IdentityKey(output[i]) /= IdentityKey(output[j])

\* C1 witness: a run that dropped a duplicate, kept two records with
\* different keys, and was deduplicated a second time.
C1_Witness ==
    /\ pc = "rerun"
    /\ Len(input) = 3
    /\ Len(output) = 2
    /\ rerun = output

SameTitle(t1, t2) == Strip(Lower(t1)) = Strip(Lower(t2))

\* C3: two records with empty doi collapse to one when their titles are
\* identical up to case and whitespace and their publication dates are
\* identical, and both are kept when their publication dates differ.
C3_FallbackIdentity ==
    (/\ pc = "deduped"
     /\ Len(input) = 2
     /\ input[1].doi = <<>>
     /\ input[2].doi = <<>>)
    => /\ (/\ SameTitle(input[1].title, input[2].title)
           /\ input[1].publication_date = input[2].publication_date)
          => Len(output) = 1
       /\ input[1].publication_date /= input[2].publication_date
          => Len(output) = 2

\* The first half of C3 alone.
C3_SameTitleSameDateCollapse ==
    (/\ pc = "deduped"
     /\ Len(input) = 2
     /\ input[1].doi = <<>>
     /\ input[2].doi = <<>>
     /\ SameTitle(input[1].title, input[2].title)
     /\ input[1].publication_date = input[2].publication_date)
    => output = <<input[1]>>

(***************************************************************************)
(* SpecDate: the two date extractors applied to one date each.             *)
(***************************************************************************)
Text2024 == <<"2", "0", "2", "4">>

PubmedYears == {None, Text2024}
PubmedMonths ==
    {None, <<>>, <<"3">>, <<"0", "3">>, <<"1", "2">>, <<"M", "a", "r">>,
     <<"m", "a", "r", "c", "h">>, <<"D", "E", "C">>, <<"S", "e", "p", "t">>,
     <<"X", "y", "z">>, <<"M", "a">>}
PubmedDays == {None, <<"5">>, <<"1", "7">>}

\* An article whose date stands in PubDate, or, PubDate missing, in
\* ArticleDate.
PubmedDateArticle(where, year, month, day) ==
    IF where = "PubDate"
    THEN [PubDate |-> DateElement(year, month, day), ArticleDate |-> NoElement]
    ELSE [PubDate |-> NoElement, ArticleDate |-> DateElement(year, month, day)]

PubmedDateInputs ==
    {[fn |-> "extract_pubmed_date",
      arg |-> PubmedDateArticle(w, y, m, d),
      year |-> JStr(y), month |-> JStr(m), day |-> JStr(d)] :
        w \in {"PubDate", "ArticleDate"}, y \in PubmedYears,
        m \in PubmedMonths, d \in PubmedDays}

CrossrefYears == {JInt(2024), JInt(987)}
CrossrefMonths == {JInt(3), JInt(12)}
CrossrefDays == {JInt(5), JInt(17)}

CrossrefParts ==
    {<<>>} \cup {<<y>> : y \in CrossrefYears}
    \cup {<<y, m>> : y \in CrossrefYears, m \in CrossrefMonths \cup {JNull}}
    \cup {<<y, m, d>> : y \in CrossrefYears, m \in CrossrefMonths \cup {JNull},
                        d \in CrossrefDays}

DateInfo(parts) == JObj("date-parts" :> JList(<<JList(parts)>>))

\* An item whose date stands under the given key; with "after-null", under
\* "issued" behind a "published-print" whose date-parts are [[null]].
CrossrefDateItem(where, parts) ==
    IF where = "after-null"
    THEN JObj(("published-print" :> DateInfo(<<JNull>>))
              @@ ("issued" :> DateInfo(parts)))
    ELSE JObj(where :> DateInfo(parts))

PartOr(parts, i) == IF Len(parts) >= i THEN parts[i] ELSE JNull

CrossrefDateInputs ==
    {[fn |-> "extract_crossref_date",
      arg |-> CrossrefDateItem(w, p),
      year |-> PartOr(p, 1), month |-> PartOr(p, 2), day |-> PartOr(p, 3)] :
        w \in {"published-print", "published-online", "issued", "created",
               "after-null"},
        p \in CrossrefParts}

InitDate ==
    /\ pc = "date"
    /\ input \in PubmedDateInputs \cup CrossrefDateInputs
    /\ output = <<>>
    /\ rerun = <<>>
    /\ MainIdle

ExtractPubmedDate ==
    /\ pc = "date"
    /\ input.fn = "extract_pubmed_date"
    /\ output' = extract_pubmed_date(input.arg)
    /\ pc' = "dated"
    /\ UNCHANGED <<input, rerun, mainVars>>

ExtractCrossrefDate ==
    /\ pc = "date"
    /\ input.fn = "extract_crossref_date"
    /\ output' = extract_crossref_date(input.arg)
    /\ pc' = "dated"
    /\ UNCHANGED <<input, rerun, mainVars>>

NextDate == ExtractPubmedDate \/ ExtractCrossrefDate

SpecDate == InitDate /\ [][NextDate]_vars

\* The two-digit month a month value resolves to, <<>> when it resolves to
\* none: the sample months, one by one.
ExpectedMonth(month) ==
    CASE month = JStr(<<"3">>) -> <<"0", "3">>
      [] month = JStr(<<"0", "3">>) -> <<"0", "3">>
      [] month = JStr(<<"1", "2">>) -> <<"1", "2">>
      [] month = JStr(<<"M", "a", "r">>) -> <<"0", "3">>
      [] month = JStr(<<"m", "a", "r", "c", "h">>) -> <<"0", "3">>
      [] month = JStr(<<"D", "E", "C">>) -> <<"1", "2">>
      [] month = JStr(<<"S", "e", "p", "t">>) -> <<"0", "9">>
      [] month = JInt(3) -> <<"0", "3">>
      [] month = JInt(12) -> <<"1", "2">>
      [] OTHER -> <<>>

ExpectedDay(day) ==
    CASE day = JStr(<<"5">>) -> <<"0", "5">>
      [] day = JStr(<<"1", "7">>) -> <<"1", "7">>
      [] day = JInt(5) -> <<"0", "5">>
      [] day = JInt(17) -> <<"1", "7">>
      [] OTHER -> <<>>

ExpectedYear(year) ==
    CASE year = JStr(Text2024) -> Text2024
      [] year = JInt(2024) -> Text2024
      [] year = JInt(987) -> <<"0", "9", "8", "7">>
      [] OTHER -> <<>>

\* The date of the granularity the claim gives for a year, month and day.
ExpectedDate(year, month, day) ==
    IF ExpectedYear(year) = <<>> THEN <<>>
    ELSE IF ExpectedMonth(month) = <<>> THEN ExpectedYear(year)
    ELSE IF ExpectedDay(day) = <<>>
    THEN ExpectedYear(year) \o <<"-">> \o ExpectedMonth(month)
    ELSE ExpectedYear(year) \o <<"-">> \o ExpectedMonth(month) \o <<"-">>
         \o ExpectedDay(day)

\* C7: date assembly never raises and returns YYYY-MM-DD when year, a
\* resolvable month and day are present, YYYY-MM when year and a resolvable
\* month are, YYYY when only the year is usable (a month that cannot be
\* parsed counts as absent, also with a day present) and "" without a year;
\* a month name is converted to its 2-digit number.
C7_DateAssembly ==
    pc = "dated" =>
        output = JStr(ExpectedDate(input.year, input.month, input.day))

\* C7 witness: a month name that cannot be parsed, with a year and a day:
\* the year alone is returned.
C7_Witness ==
    /\ pc = "dated"
    /\ input.fn = "extract_pubmed_date"
    /\ input.month = JStr(<<"X", "y", "z">>)
    /\ input.day = JStr(<<"5">>)
    /\ output = JStr(Text2024)

(***************************************************************************)
(* SpecDecode: decode_openalex_abstract applied to one index.              *)
(***************************************************************************)
SampleWords == {<<"a">>, <<"b", "c">>}

PositionLists == SeqsUpTo(0..MaxPosition, MaxOccurrences)

\* The dicts over the sample words: none, one or both of them, in either
\* order, each with a list of positions.
SampleIndexes ==
    {<<>>}
    \cup {<<[word |-> w, idxs |-> l]>> : w \in SampleWords, l \in PositionLists}
    \cup {items \in {<<[word |-> w1, idxs |-> l1], [word |-> w2, idxs |-> l2]>> :
                        w1 \in SampleWords, w2 \in SampleWords,
                        l1 \in PositionLists, l2 \in PositionLists} :
            items[1].word /= items[2].word}

InitDecode ==
    /\ pc = "decode"
    /\ input \in {JNull} \cup {IndexDict(items) : items \in SampleIndexes}
    /\ output = <<>>
    /\ rerun = <<>>
    /\ MainIdle

DecodeAbstract ==
    /\ pc = "decode"
    /\ output' = decode_openalex_abstract(input)
    /\ pc' = "decoded"
    /\ UNCHANGED <<input, rerun, mainVars>>

NextDecode == DecodeAbstract

SpecDecode == InitDecode /\ [][NextDecode]_vars

\* The items of an index (none for None).
ItemsOf(index) == IF index.t = "null" THEN <<>> ELSE index.v

\* The (position, word) pairs of an index.
PairsOf(index) ==
    UNION {{<<ItemsOf(index)[i].idxs[j], ItemsOf(index)[i].word>> :
              j \in 1..Len(ItemsOf(index)[i].idxs)} :
           i \in 1..Len(ItemsOf(index))}

PositionsIn(index) == {pair[1] : pair \in PairsOf(index)}

\* The k-th smallest position of an index.
KthPosition(index, k) ==
    CHOOSE p \in PositionsIn(index) :
        Cardinality({q \in PositionsIn(index) : q < p}) = k - 1

\* The word of the last item, in iteration order, that lists position p.
LastWordAt(index, p) ==
    LET items == ItemsOf(index)
        HasP(i) == \E j \in 1..Len(items[i].idxs) : items[i].idxs[j] = p
        last == CHOOSE i \in 1..Len(items) :
                    HasP(i) /\ \A k \in (i + 1)..Len(items) : ~HasP(k)
    IN  items[last].word

\* C8 as stated: the output lists one word per (position, word) pair, the
\* pairs sorted by position, joined by single spaces.
C8_OneWordPerPair ==
    pc = "decoded" =>
        \E order \in [1..Cardinality(PairsOf(input)) -> PairsOf(input)] :
            /\ \A i, j \in DOMAIN order : i < j => order[i] /= order[j]
            /\ \A i, j \in DOMAIN order : i < j => order[i][1] <= order[j][1]
            /\ output = JStr(Join(<<" ">>,
                                  [k \in DOMAIN order |-> order[k][2]]))

\* C8 amended: the output lists one word per distinct position, in strictly
\* ascending position order, joined by single spaces; the word at a position
\* is that of the last item of the index, in iteration order, that lists it.
\* An empty or absent index yields the empty string.
C8_OneWordPerPosition ==
    pc = "decoded" =>
        /\ output =
             JStr(Join(<<" ">>,
                       [k \in 1..Cardinality(PositionsIn(input)) |->
                           LastWordAt(input, KthPosition(input, k))]))
        /\ ItemsOf(input) = <<>> => output = EmptyStr

\* C8 witness: two words list the same position; one word is decoded for it.
C8_Witness ==
    /\ pc = "decoded"
    /\ Len(ItemsOf(input)) = 2
    /\ input.v[1].idxs = <<0, 1>>
    /\ input.v[2].idxs = <<1>>
    /\ input.v[1].word = <<"a">>
    /\ output = JStr(<<"a", " ", "b", "c">>)

(***************************************************************************)
(* SpecAdapters: one adapter call on one upstream exchange.                *)
(***************************************************************************)
Absent == [t |-> "absent"]

\* The JSON object with the given (key, value) pairs, those with the value
\* Absent left out.
Obj(pairs) ==
    JObj([k \in {pairs[i][1] : i \in {j \in 1..Len(pairs) :
                                         pairs[j][2].t /= "absent"}} |->
            pairs[CHOOSE i \in 1..Len(pairs) : pairs[i][1] = k][2]])

XmlDocument(articles) == [t |-> "xml", v |-> articles]

DoiUpper == <<"1", "0", ".", "1", "/", "X">>
DoiLower == <<"1", "0", ".", "1", "/", "x">>
DoiPadded == <<" ">> \o DoiLower \o <<" ">>
DoiUrl == <<"https://doi.org/">> \o DoiLower

OpenalexIds ==
    {Absent, JNull, Obj(<<>>), Obj(<< <<"doi", JNull>> >>),
     Obj(<< <<"doi", JStr(DoiUrl)>> >>),
     Obj(<< <<"doi", JStr(<<" ">> \o DoiUrl)>> >>)}

OpenalexLocations ==
    {Absent, JNull, Obj(<< <<"source", JNull>> >>),
     Obj(<< <<"source", Obj(<< <<"display_name", JNull>> >>)>> >>),
     Obj(<< <<"source", Obj(<< <<"display_name", JStr(<<"J">>)>> >>)>> >>)}

OpenalexAuthorships ==
    {Absent, JNull,
     JList(<<Obj(<< <<"author", Obj(<< <<"display_name", JStr(<<"N">>)>> >>)>> >>),
             Obj(<< <<"author", JNull>> >>)>>)}

OpenalexItem(ids, location, authorships) ==
    Obj(<< <<"title", JStr(<<" ", "T">>)>>, <<"ids", ids>>,
           <<"primary_location", location>>, <<"authorships", authorships>>,
           <<"publication_date", JStr(Text2024)>>,
           <<"abstract_inverted_index",
             IndexDict(<<[word |-> <<"b">>, idxs |-> <<1>>],
                         [word |-> <<"a">>, idxs |-> <<0>>]>>)>> >>)

OpenalexInputs ==
    {[fn |-> "fetch_openalex", keyword |-> <<"k">>, kind |-> "body",
      response |-> <<Response(Obj(<< <<"results", JList(<<OpenalexItem(i, l, a)>>)>> >>))>>] :
        i \in OpenalexIds, l \in OpenalexLocations, a \in OpenalexAuthorships}
    \cup {[fn |-> "fetch_openalex", keyword |-> <<"k">>, kind |-> "body",
           response |-> <<Response(b)>>] :
            b \in {Obj(<<>>), Obj(<< <<"results", JList(<<>>)>> >>)}}
    \cup {[fn |-> "fetch_openalex", keyword |-> <<"k">>, kind |-> "transport",
           response |-> <<TransportError>>],
          [fn |-> "fetch_openalex", keyword |-> <<"k">>, kind |-> "parse",
           response |-> <<MalformedBody>>]}

CrossrefDois == {Absent, JNull, JStr(DoiUpper), JStr(DoiPadded)}

CrossrefTitles == {Absent, JNull, JList(<<JStr(<<"T">>), JStr(<<"U">>)>>)}

CrossrefAuthorLists ==
    {Absent, JNull,
     JList(<<Obj(<< <<"given", JStr(<<"G">>)>>, <<"family", JStr(<<"F">>)>> >>),
             Obj(<< <<"name", JStr(<<"N">>)>> >>),
             Obj(<<>>)>>)}

CrossrefItem(doi, title, author, parts) ==
    Obj(<< <<"DOI", doi>>, <<"title", title>>, <<"author", author>>,
           <<"issued", DateInfo(parts)>>,
           <<"container-title", JList(<<JStr(<<"J">>)>>)>>,
           <<"abstract", JStr(<<"<", "p", ">", "A", "\n", "B", "<", "/", "p", ">">>)>> >>)

CrossrefInputs ==
    {[fn |-> "fetch_crossref", keyword |-> <<"k">>, kind |-> "body",
      response |-> <<Response(Obj(<< <<"message",
                        Obj(<< <<"items", JList(<<CrossrefItem(d, t, a, p)>>)>> >>)>> >>))>>] :
        d \in CrossrefDois, t \in CrossrefTitles, a \in CrossrefAuthorLists,
        p \in {<<JInt(2024), JInt(3)>>, <<JNull>>}}
    \cup {[fn |-> "fetch_crossref", keyword |-> <<"k">>, kind |-> "body",
           response |-> <<Response(b)>>] :
            b \in {Obj(<<>>), Obj(<< <<"message", Obj(<<>>)>> >>)}}
    \cup {[fn |-> "fetch_crossref", keyword |-> <<"k">>, kind |-> "transport",
           response |-> <<TransportError>>],
          [fn |-> "fetch_crossref", keyword |-> <<"k">>, kind |-> "parse",
           response |-> <<MalformedBody>>]}

PubmedAuthors ==
    {Author(<<" ", "G", "r", "p">>, <<"Z">>, None, None),
     Author(None, <<"S", "m">>, <<"A", "n", "n">>, <<"A">>),
     Author(None, <<"S", "m">>, None, <<"J">>),
     Author(None, None, <<"A", "n", "n">>, None),
     Author(None, None, None, <<"Q">>),
     Author(None, None, None, None)}

PubmedAuthorLists ==
    {<<>>} \cup {<<a>> : a \in PubmedAuthors}
    \cup {<<a, b>> : a \in PubmedAuthors, b \in PubmedAuthors}

PubmedDois == {None, <<>>, DoiUpper, DoiPadded}

PubmedArticle(authors, doi) ==
    [ArticleTitle |-> <<"T", " ">>,
     AbstractTexts |-> << <<"A">>, <<" ">>, <<"B">> >>,
     Authors |-> authors, DoiId |-> doi, JournalTitle |-> <<"J">>,
     PubDate |-> DateElement(Text2024, <<"M", "a", "r">>, <<"5">>),
     ArticleDate |-> NoElement]

SearchFound == Response(Obj(<< <<"esearchresult",
                   Obj(<< <<"idlist", JList(<<JStr(<<"7">>)>>)>> >>)>> >>))

PubmedInputs ==
    {[fn |-> "fetch_pubmed", keyword |-> <<"k">>, kind |-> "body",
      response |-> <<SearchFound, Response(XmlDocument(<<PubmedArticle(a, d)>>))>>] :
        a \in PubmedAuthorLists, d \in PubmedDois}
    \cup {[fn |-> "fetch_pubmed", keyword |-> <<"k">>, kind |-> "body",
           response |-> <<Response(b), TransportError>>] :
            b \in {Obj(<<>>), Obj(<< <<"esearchresult", Obj(<<>>)>> >>),
                   Obj(<< <<"esearchresult", Obj(<< <<"idlist", JList(<<>>)>> >>)>> >>)}}
    \cup {[fn |-> "fetch_pubmed", keyword |-> <<"k">>, kind |-> "transport",
           response |-> <<TransportError, TransportError>>],
          [fn |-> "fetch_pubmed", keyword |-> <<"k">>, kind |-> "parse",
           response |-> <<MalformedBody, TransportError>>],
          [fn |-> "fetch_pubmed", keyword |-> <<"k">>, kind |-> "transport",
           response |-> <<SearchFound, TransportError>>],
          [fn |-> "fetch_pubmed", keyword |-> <<"k">>, kind |-> "parse",
           response |-> <<SearchFound, MalformedBody>>]}

InitAdapters ==
    /\ pc = "fetch"
    /\ input \in PubmedInputs \cup CrossrefInputs \cup OpenalexInputs
    /\ output = <<>>
    /\ rerun = <<>>
    /\ MainIdle

FetchPubmed ==
    /\ pc = "fetch"
    /\ input.fn = "fetch_pubmed"
    /\ output' = fetch_pubmed(input.keyword, input.response)
    /\ pc' = "fetched"
    /\ UNCHANGED <<input, rerun, mainVars>>

FetchCrossref ==
    /\ pc = "fetch"
    /\ input.fn = "fetch_crossref"
    /\ output' = fetch_crossref(input.keyword, input.response)
    /\ pc' = "fetched"
    /\ UNCHANGED <<input, rerun, mainVars>>

FetchOpenalex ==
    /\ pc = "fetch"
    /\ input.fn = "fetch_openalex"
    /\ output' = fetch_openalex(input.keyword, input.response)
    /\ pc' = "fetched"
    /\ UNCHANGED <<input, rerun, mainVars>>

NextAdapters == FetchPubmed \/ FetchCrossref \/ FetchOpenalex

SpecAdapters == InitAdapters /\ [][NextAdapters]_vars

\* C5: an adapter call never raises past its own boundary: it returns a
\* sequence of records, and the empty one on a transport or a parse error.
C5_AdapterNeverRaises ==
    pc = "fetched" =>
        /\ ~IsExc(output)
        /\ input.kind \in {"transport", "parse"} => output = JList(<<>>)

\* The half of C5 that holds: a transport error and a body that cannot be
\* parsed yield the empty sequence.
C5_TransportAndParseErrorsCaught ==
    (pc = "fetched" /\ input.kind \in {"transport", "parse"})
        => output = JList(<<>>)

\* C6: the doi of every emitted record is lowercase and carries no
\* https://doi.org/ prefix.
C6_DoiNormalized ==
    (pc = "fetched" /\ ~IsExc(output)) =>
        \A i \in 1..Len(output.v) :
            /\ output.v[i].doi = Lower(output.v[i].doi)
            /\ \A j \in 1..Len(output.v[i].doi) :
                  output.v[i].doi[j] /= "https://doi.org/"

\* C10: an author entry of fetch_pubmed yields the collective name if it
\* has one; else the fore name and the last name joined by a space; else,
\* without a fore name, the initials and the last name joined by a space.
C10_AuthorPriority ==
    (/\ pc = "fetched"
     /\ input.fn = "fetch_pubmed"
     /\ ~IsExc(output)
     /\ Len(output.v) = 1
     /\ Len(input.response[2].body.v[1].Authors) = 1)
    => LET author == input.response[2].body.v[1].Authors[1]
           emitted == output.v[1].authors
       IN  /\ Truthy(author.CollectiveName)
                => emitted = Strip(author.CollectiveName)
           /\ (/\ ~Truthy(author.CollectiveName)
               /\ Truthy(author.ForeName)
               /\ Truthy(author.LastName))
                => emitted = author.ForeName \o <<" ">> \o author.LastName
           /\ (/\ ~Truthy(author.CollectiveName)
               /\ ~Truthy(author.ForeName)
               /\ Truthy(author.Initials)
               /\ Truthy(author.LastName))
                => emitted = author.Initials \o <<" ">> \o author.LastName

(***************************************************************************)
(* Spec: main.  The argument lists are those normalize_list_argument       *)
(* returns; what each adapter call meets upstream is chosen when the call  *)
(* is made.                                                                *)
(***************************************************************************)
NamePubmed == <<"p", "u", "b", "m", "e", "d">>
NameCrossref == <<"c", "r", "o", "s", "s", "r", "e", "f">>
NameOpenalex == <<"o", "p", "e", "n", "a", "l", "e", "x">>

\* The keys of the fetchers dict.
FetcherNames == {NamePubmed, NameCrossref, NameOpenalex}

\* A mutant of FetcherFor: the lookup takes the source name as given.
FetcherForCaseSensitive(source) ==
    IF source \in FetcherNames THEN source ELSE None

\* fetchers.get(source.lower()): the key of the adapter, or None.
FetcherFor(source) ==
    IF Lower(source) \in FetcherNames THEN Lower(source) ELSE None

\* fetcher(keyword), given what the adapter meets upstream.
FetcherCall(fetcher, keyword, response) ==
    CASE fetcher = NamePubmed -> fetch_pubmed(keyword, response)
      [] fetcher = NameCrossref -> fetch_crossref(keyword, response)
      [] fetcher = NameOpenalex -> fetch_openalex(keyword, response)

\* "try: source_records = fetcher(keyword); all_records.extend(source_records)
\*  except Exception: logging.error(...)": all_records after the call.
ExtendOrLog(records, source_records) ==
    IF IsExc(source_records) THEN records ELSE records \o source_records.v

\* A mutant of AfterCall: no try/except, the exception ends the run.
AfterCallUncaught(source_records) ==
    IF IsExc(source_records) THEN "aborted" ELSE "loop"

\* Where main is after a fetcher call: every Exception is caught, the loop
\* goes on.
AfterCall(source_records) == "loop"

SampleSources ==
    {NamePubmed, <<"C", "r", "o", "s", "s", "R", "e", "f">>,
     <<"O", "P", "E", "N", "A", "L", "E", "X">>, <<"s", "c", "o", "p", "u", "s">>}

Keyword1 == <<"a", "s">>
Keyword2 == <<"m", "r">>
SampleKeywordLists == {<<>>, <<Keyword1>>, <<Keyword1, Keyword2>>, <<Keyword2, Keyword1>>}

\* What a call of each adapter may meet upstream.
Upstreams(fetcher) ==
    CASE fetcher = NamePubmed ->
           {<<TransportError, TransportError>>,
            <<SearchFound,
              Response(XmlDocument(<<PubmedArticle(<<>>, DoiUpper),
                                     PubmedArticle(<<>>, None)>>))>>}
      [] fetcher = NameCrossref ->
           {<<Response(Obj(<< <<"message", Obj(<< <<"items",
                JList(<<CrossrefItem(JStr(DoiUpper), JNull, Absent,
                                     <<JInt(2024)>>)>>)>> >>)>> >>))>>,
            <<Response(Obj(<< <<"message", Obj(<< <<"items",
                JList(<<CrossrefItem(JStr(DoiUpper),
                                     JList(<<JStr(<<"T">>)>>), Absent,
                                     <<JInt(2024)>>)>>)>> >>)>> >>))>>}
      [] fetcher = NameOpenalex ->
           {<<MalformedBody>>,
            <<Response(Obj(<< <<"results",
                JList(<<OpenalexItem(Absent, Obj(<< <<"source", JNull>> >>),
                                     Absent)>>)>> >>))>>,
            <<Response(Obj(<< <<"results",
                JList(<<OpenalexItem(Obj(<< <<"doi", JStr(DoiUrl)>> >>),
                                     Absent, Absent),
                        OpenalexItem(Absent, Absent, Absent)>>)>> >>))>>}

Init ==
    /\ pc = "start"
    /\ sources \in SeqsUpTo(SampleSources, MaxSources)
    /\ keywords \in SampleKeywordLists
    /\ si = 1
    /\ ki = 1
    /\ all_records = <<>>
    /\ unique_records = <<>>
    /\ csv_rows = <<>>
    /\ calls = <<>>
    /\ input = <<>>
    /\ output = <<>>
    /\ rerun = <<>>

pureVars == <<input, output, rerun>>

\* "if not keywords: return" and "if not sources: return"
CheckArguments ==
    /\ pc = "start"
    /\ pc' = IF keywords = <<>> \/ sources = <<>> THEN "exit" ELSE "loop"
    /\ UNCHANGED <<mainVars, pureVars>>

\* An unsupported source: warning, continue with the next source.
SkipSource ==
    /\ pc = "loop"
    /\ si <= Len(sources)
    /\ FetcherFor(sources[si]) = None
    /\ si' = si + 1
    /\ ki' = 1
    /\ UNCHANGED <<pc, sources, keywords, all_records, unique_records,
                   csv_rows, calls, pureVars>>

\* One turn of the inner loop: the fetcher is called for the keyword.
FetchPair ==
    /\ pc = "loop"
    /\ si <= Len(sources)
    /\ FetcherFor(sources[si]) /= None
    /\ \E response \in Upstreams(FetcherFor(sources[si])) :
          LET source_records ==
                  FetcherCall(FetcherFor(sources[si]), keywords[ki], response)
          IN  /\ all_records' = ExtendOrLog(all_records, source_records)
              /\ calls' = Append(calls, [source |-> sources[si],
                                         keyword |-> keywords[ki],
                                         result |-> source_records])
              /\ pc' = AfterCall(source_records)
    /\ IF ki < Len(keywords)
       THEN ki' = ki + 1 /\ si' = si
       ELSE ki' = 1 /\ si' = si + 1
    /\ UNCHANGED <<sources, keywords, unique_records, csv_rows, pureVars>>

\* unique_records = deduplicate_records(all_records)
DedupStage ==
    /\ pc = "loop"
    /\ si > Len(sources)
    /\ unique_records' = deduplicate_records(all_records)
    /\ pc' = "write"
    /\ UNCHANGED <<sources, keywords, si, ki, all_records, csv_rows, calls,
                   pureVars>>

\* write_csv(unique_records, timestamp) and write_markdown_summary
WriteStage ==
    /\ pc = "write"
    /\ csv_rows' = unique_records
    /\ pc' = "done"
    /\ UNCHANGED <<sources, keywords, si, ki, all_records, unique_records,
                   calls, pureVars>>

Next == CheckArguments \/ SkipSource \/ FetchPair \/ DedupStage \/ WriteStage

Spec == Init /\ [][Next]_vars

\* The records of the calls that returned, in call order.
RECURSIVE ReturnedRecords(_)
ReturnedRecords(log) ==
    IF log = <<>> THEN <<>>
    ELSE (IF IsExc(Head(log).result) THEN <<>> ELSE Head(log).result.v)
         \o ReturnedRecords(Tail(log))

\* Whether a source name is, case aside, the name of an adapter.
IsSupported(source) ==
    Lower(source) \in {NamePubmed, NameCrossref, NameOpenalex}

\* The (source, keyword) pairs in source order and, within a source, in
\* keyword order, the unsupported sources left out.
RECURSIVE ExpectedPairs(_, _)
ExpectedPairs(srcs, kws) ==
    IF srcs = <<>> THEN <<>>
    ELSE (IF IsSupported(Head(srcs))
          THEN [k \in 1..Len(kws) |-> <<Head(srcs), kws[k]>>]
          ELSE <<>>)
         \o ExpectedPairs(Tail(srcs), kws)

CalledPairs == [i \in 1..Len(calls) |-> <<calls[i].source, calls[i].keyword>>]

\* C4: a failing adapter call does not abort the run: every supported pair
\* is still called, the combined sequence holds the records of every call
\* that returned, and the run goes on to deduplication and the write stage.
C4_PartialFailureIsolation ==
    /\ pc /= "aborted"
    /\ \A i \in 1..Len(calls) :
          ~IsExc(calls[i].result) =>
              \A j \in 1..Len(calls[i].result.v) :
                  \E k \in 1..Len(all_records) :
                      all_records[k] = calls[i].result.v[j]
    /\ pc \in {"write", "done"} =>
          Len(calls) = Len(ExpectedPairs(sources, keywords))
    /\ pc = "done" => csv_rows = deduplicate_records(ReturnedRecords(calls))

\* C4 witness: a run that reached the write stage after a call that raised
\* and a call, before it, that returned records.
C4_Witness ==
    /\ pc = "done"
    /\ Len(calls) >= 3
    /\ ~IsExc(calls[1].result)
    /\ calls[1].result.v /= <<>>
    /\ IsExc(calls[2].result)
    /\ ~IsExc(calls[3].result)
    /\ calls[3].result.v /= <<>>
    /\ csv_rows /= <<>>

\* C9: the adapters are called for the (source, keyword) pairs in source
\* order and, within a source, keyword order; the adapter is found by the
\* lowercased source name and the pairs of an unknown source are skipped
\* without a call; the combined sequence is the concatenation of the
\* returned records in that order.
C9_CallOrder ==
    /\ pc \in {"write", "done"} =>
          CalledPairs = ExpectedPairs(sources, keywords)
    /\ pc \in {"loop", "write", "done"} =>
          /\ all_records = ReturnedRecords(calls)
          /\ \E n \in 0..Len(ExpectedPairs(sources, keywords)) :
                CalledPairs = SubSeq(ExpectedPairs(sources, keywords), 1, n)

\* C9 witness: an unknown source is skipped, a source named in another case
\* is called for two keywords, and the calls returned three records or more.
C9_Witness ==
    /\ pc = "done"
    /\ Len(sources) = 2
    /\ ~IsSupported(sources[1])
    /\ sources[2] \notin FetcherNames
    /\ Len(keywords) = 2
    /\ Len(calls) = 2
    /\ Len(all_records) >= 3

=============================================================================
